---- MODULE Spec2Model ----
(***************************************************************************)
(* A model of rom-bulk-patcher.py: run_patches, the per-entry resolution   *)
(* pipeline (patch acquire, patch CRC, source locate, source CRC, format   *)
(* dispatch, apply, output CRC) and the run loop with its error list.      *)
(*                                                                         *)
(* Strings are sequences of character codes (65 = "A", 95 = "_", ...).     *)
(* File contents are sequences of bits.  zlib.crc32 is scaled down from 32 *)
(* to CrcBits bits and the 512-byte read chunk to ChunkSize symbols; the   *)
(* chaining of the checksum over chunks is kept as in the source.          *)
(***************************************************************************)
EXTENDS Integers, Sequences, FiniteSets, TLC

---------------------------------------------------------------------------
(* Bounds of the model.                                                    *)

\* largest number of <game> elements in the database
MaxGames == 2

\* largest number of entries in a rom directory that is searched
MaxListed == 3

\* largest number of <game> elements in a database that is searched by name,
\* and the largest number for which the search text comes close to a name
MaxCatalog == 6

MaxClose == 3

\* largest length of the name of a game
MaxNameLen == 4

\* largest sizes of a working set and of a rom directory whose sizes alone
\* matter
MaxWorking == 101

MaxFiles == 11

---------------------------------------------------------------------------
(* ChecksumVerifier: zlib.crc32 chained over the chunks of a file.         *)

CrcBits == 4

ChunkSize == 2

CrcMod == 2 ^ CrcBits

RECURSIVE Xor(_, _)
Xor(a, b) ==
    IF a = 0 THEN b
    ELSE IF b = 0 THEN a
    ELSE (((a % 2) + (b % 2)) % 2) + 2 * Xor(a \div 2, b \div 2)

\* one step of the shift register, polynomial x^4 + x + 1
CrcStep(reg, bit) ==
    LET top     == (reg \div (CrcMod \div 2)) % 2
        shifted == (reg * 2) % CrcMod
    IN  IF top # bit THEN Xor(shifted, 3) ELSE shifted

RECURSIVE CrcFeed(_, _)
CrcFeed(chunk, reg) ==
    IF chunk = <<>> THEN reg
    ELSE CrcFeed(Tail(chunk), CrcStep(reg, Head(chunk)))

\* zlib.crc32(chunk, crc): the running value is inverted on entry and exit
crc32(chunk, crc) ==
    Xor(CrcFeed(chunk, Xor(crc, CrcMod - 1)), CrcMod - 1)

Min(a, b) == IF a < b THEN a ELSE b

\* crc = 0; while chunk := file.read(512): crc = zlib.crc32(chunk, crc)
RECURSIVE ReadCrc(_, _)
ReadCrc(data, crc) ==
    IF data = <<>> THEN crc
    ELSE LET n == Min(ChunkSize, Len(data))
         IN  ReadCrc(SubSeq(data, n + 1, Len(data)),
                     crc32(SubSeq(data, 1, n), crc))

ChecksumOf(data) == ReadCrc(data, 0)

HexDigits == <<48, 49, 50, 51, 52, 53, 54, 55, 56, 57, 65, 66, 67, 68, 69, 70>>

\* '{:08X}'.format(crc)
Format08X(crc) ==
    [k \in 1..8 |-> HexDigits[((crc \div (16 ^ (8 - k))) % 16) + 1]]

---------------------------------------------------------------------------
(* Names and paths.                                                        *)

IsDigit(c) == c \in 48..57

Max(S) == CHOOSE x \in S : \A y \in S : y <= x

\* re.match('^(.*)_\d+', name): the greedy group ends before the last
\* underscore that is followed by a digit; nothing anchors the end.
RomName(name) ==
    LET hits == {k \in 1..(Len(name) - 1) :
                    name[k] = 95 /\ IsDigit(name[k + 1])}
    IN  IF hits = {} THEN name ELSE SubSeq(name, 1, Max(hits) - 1)

\* '{}.{}'.format(stem, ext)
DotJoin(stem, ext) == stem \o <<46>> \o ext

\* os.path.join(dir, base)
PathJoin(dir, base) == <<dir, base>>

\* the translation tag 'T-Eng'
patch_genre == <<84, 45, 69, 110, 103>>

\* the file extension of the set: 'sfc'
rom_ext == <<115, 102, 99>>

\* '{} ({} {} by {}).{}'.format(rom_name, patch_genre, version, author, rom_ext)
OutBase(rom_name, version, author) ==
    rom_name \o <<32, 40>> \o patch_genre \o <<32>> \o version
             \o <<32, 98, 121, 32>> \o author \o <<41, 46>> \o rom_ext

\* lexicographic order of two strings, as Python compares str values
RECURSIVE StrLess(_, _)
StrLess(a, b) ==
    IF b = <<>> THEN FALSE
    ELSE IF a = <<>> THEN TRUE
    ELSE IF Head(a) # Head(b) THEN Head(a) < Head(b)
    ELSE StrLess(Tail(a), Tail(b))

\* key=lambda x: x[0]
ByName(x, y) == StrLess(x.name, y.name)

\* key=lambda x: x[1], reverse=True
ByRatioDesc(x, y) == x.ratio > y.ratio

\* does x's sort key come strictly before y's under the given key
Before(key, x, y) == IF key = "name" THEN ByName(x, y) ELSE ByRatioDesc(x, y)

\* sorted(...) is stable: an element goes behind the elements that do not
\* sort strictly after it
RECURSIVE InsertSorted(_, _, _)
InsertSorted(s, x, key) ==
    IF s = <<>> THEN <<x>>
    ELSE IF Before(key, x, Head(s)) THEN <<x>> \o s
    ELSE <<Head(s)>> \o InsertSorted(Tail(s), x, key)

RECURSIVE SortedFrom(_, _, _)
SortedFrom(done, rest, key) ==
    IF rest = <<>> THEN done
    ELSE SortedFrom(InsertSorted(done, Head(rest), key), Tail(rest), key)

Sorted(s, key) == SortedFrom(<<>>, s, key)

\* the filter left out: every scored entry is kept
WithinTenth_All(x, top) == TRUE

\* the comparison of the filter made inclusive
WithinTenth_Inclusive(x, top) == 10 * x.ratio >= 10 * top - top

\* x[1] > games[0][1] - games[0][1] / 10, in tenths to stay in the integers
WithinTenth(x, top) == 10 * x.ratio > 10 * top - top

\* list(filter(lambda x: ..., games))
RECURSIVE FilterWithinTenth(_, _)
FilterWithinTenth(s, top) ==
    IF s = <<>> THEN <<>>
    ELSE IF WithinTenth(Head(s), top)
         THEN <<Head(s)>> \o FilterWithinTenth(Tail(s), top)
         ELSE FilterWithinTenth(Tail(s), top)

---------------------------------------------------------------------------
(* The database and the files of a run.                                    *)

\* an expected checksum as the database spells it: eight hex digits
Hex8(last) == <<48, 48, 48, 48, 48, 48, 48, last>>

\* patch types 'bps', 'ips' and an unsupported 'ups'
bps == <<98, 112, 115>>

ips == <<105, 112, 115>>

ups == <<117, 112, 115>>

\* <game> elements in database order: "A_2" (ips), "A_1" (bps) and "A_3"
\* (ups) all patch the base rom "A" and share version and author
GamePool ==
    << [name |-> <<65, 95, 50>>, version |-> <<49>>, shortauthor |-> <<120>>,
        patchtype |-> ips, patchCRC |-> Hex8(68), baseCRC |-> Hex8(51),
        finalCRC |-> Hex8(52)],
       [name |-> <<65, 95, 49>>, version |-> <<49>>, shortauthor |-> <<120>>,
        patchtype |-> bps, patchCRC |-> Hex8(66), baseCRC |-> Hex8(51),
        finalCRC |-> Hex8(55)],
       [name |-> <<65, 95, 51>>, version |-> <<49>>, shortauthor |-> <<120>>,
        patchtype |-> ups, patchCRC |-> Hex8(66), baseCRC |-> Hex8(51),
        finalCRC |-> Hex8(55)] >>

\* the k-th smallest element of a set of numbers
RECURSIVE Nth(_, _)
Nth(S, k) ==
    LET m == CHOOSE x \in S : \A y \in S : x <= y
    IN  IF k = 1 THEN m ELSE Nth(S \ {m}, k - 1)

\* the databases: the pool with some elements left out, at most MaxGames kept
Databases ==
    {[k \in 1..Cardinality(S) |-> GamePool[Nth(S, k)]] :
        S \in {T \in SUBSET (1..Len(GamePool)) : Cardinality(T) <= MaxGames}}

\* the patch file a game is published with, and that file with one bit flipped
PublishedPatch(el) == IF el.patchtype = ips THEN <<0, 0, 1>> ELSE <<0, 1, 1>>

FlipLastBit(data) == [data EXCEPT ![Len(data)] = 1 - data[Len(data)]]

\* file contents a patch engine can write
Outputs == {<<1, 1, 1>>, <<1, 1, 0>>}

\* scores fuzzywuzzy.fuzz.ratio returns for a database name
Ratios == {40, 50, 90, 95, 100}

\* the scores of a search text that is closest to the first game of the pool
PoolScores ==
    [n \in {GamePool[k].name : k \in 1..Len(GamePool)} |->
        IF n = GamePool[1].name THEN 100
        ELSE IF n = GamePool[2].name THEN 90 ELSE 50]

\* scores fuzzywuzzy.fuzz.ratio returns for a file name
FileRatios == {60, 80}

rom_dir_name == "roms"

patch_dir == "patches"

\* names in the rom directory: the one expected for the rom "A", two other
\* file names, the name the script gives the patched rom, and a subdirectory
ExpectedBase == DotJoin(<<65>>, rom_ext)

RenamedBase == DotJoin(<<90>>, rom_ext)

OtherBase == DotJoin(<<89>>, rom_ext)

OutNamedBase == OutBase(<<65>>, <<49>>, <<120>>)

SubdirBase == <<115, 117, 98>>

RomBases == {ExpectedBase, RenamedBase, OtherBase, OutNamedBase, SubdirBase}

\* the scores of the file names when "Y.sfc" is the closest to the rom name
FileScores == [b \in RomBases |-> IF b = OtherBase THEN 80 ELSE 60]

\* listings of the rom directory: the rom under its expected name "A.sfc"
\* (intact or altered), under the name "Z.sfc" beside another file, or missing
RomListings ==
    LET expected == PathJoin(rom_dir_name, ExpectedBase)
        renamed  == PathJoin(rom_dir_name, RenamedBase)
        other    == PathJoin(rom_dir_name, OtherBase)
    IN  { [p \in {expected} |-> <<1, 1>>],
          [p \in {expected} |-> <<0, 1>>],
          [p \in {renamed, other} |-> IF p = renamed THEN <<1, 1>> ELSE <<0, 1>>],
          [p \in {other} |-> <<0, 1>>] }

\* a file system f with path p holding data
WithFile(f, p, data) ==
    [q \in (DOMAIN f) \cup {p} |-> IF q = p THEN data ELSE f[q]]

\* two file systems over disjoint paths, merged
Merged(f, g) ==
    [q \in (DOMAIN f) \cup (DOMAIN g) |-> IF q \in DOMAIN f THEN f[q] ELSE g[q]]

\* what fs holds for a subdirectory: an entry that glob lists, that is no
\* file and that open() refuses
Directory == <<-1>>

\* os.path.isfile(p)
IsFile(f, p) == p \in DOMAIN f /\ f[p] # Directory

\* patch_file = os.path.join(patch_dir, '{}.{}'.format(name, patch_type))
PatchPath(el) == PathJoin(patch_dir, DotJoin(el.name, el.patchtype))

\* the patch directory before the run: each game's patch is missing, intact
\* or altered in one bit
PatchListings(db) ==
    LET Choice == {"absent", "intact", "altered"}
    IN  { [p \in {PatchPath(db[k]) : k \in {j \in 1..Len(db) : c[j] # "absent"}} |->
             LET k == CHOOSE j \in 1..Len(db) : PatchPath(db[j]) = p
             IN  IF c[k] = "intact" THEN PublishedPatch(db[k])
                 ELSE FlipLastBit(PublishedPatch(db[k]))] :
          c \in [1..Len(db) -> Choice] }

---------------------------------------------------------------------------
(* State.                                                                  *)

VARIABLES
    rom_dir,            \* argument: the rom set directory, or NoDir
    out_dir,            \* argument: the target directory, or NoDir
    check_finalcrc,     \* argument
    search,             \* argument: TRUE when a search pattern is given
    download_only,      \* argument
    stop_on_error,      \* argument
    crc_search_limit,   \* argument: <<n>>, or NoLimit for None
    xml_isfile,         \* is the database file on disk
    dirs,               \* the directories on disk
    fs,                 \* the entries on disk: path -> content, or Directory
    games_el,           \* the <game> elements of the database
    name_ratio,         \* fuzz.ratio of each database name with the search text
    file_ratio,         \* fuzz.ratio of each file name with the rom name
    pc,                 \* position of run_patches
    exit_code,          \* exit status of the process once it has exited
    games,              \* the working set
    idx,                \* position of the loop over games (1-based)
    err_list,           \* the collected errors
    res,                \* the result of the entry, a local of run_patches
    patch_file,         \* locals of the loop body
    rom_file,
    out_file,
    files,              \* the candidates of the search by checksum, ranked
    checked,            \* how many of them the search has opened
    target,             \* the output stream last opened, never closed
    excepted,           \* how the try block of the current entry ended
    suggestions,        \* printed: the names suggested for a vague search
    results,            \* printed: the result line of each entry
    errors_printed,     \* printed: the [=== Errors ===] block
    syscalls            \* the file and network operations performed

vars == << rom_dir, out_dir, check_finalcrc, search, download_only,
           stop_on_error, crc_search_limit, xml_isfile, dirs, fs, games_el,
           name_ratio, file_ratio, pc, exit_code, games, idx, err_list, res, patch_file,
           rom_file, out_file, files, checked, target, excepted, suggestions,
           results, errors_printed, syscalls >>

\* what fuzzywuzzy.fuzz.ratio returns: a function of its two strings
fuzz == << name_ratio, file_ratio >>

\* what no statement of run_patches assigns to
args == << rom_dir, check_finalcrc, search, download_only, stop_on_error,
           fuzz >>

searched == << files, checked >>

locals == << patch_file, rom_file, out_file, searched >>

printed == << suggestions, results, errors_printed >>

\* Python's None for a directory argument and for crc_search_limit
NoDir == "<None>"

NoLimit == <<>>

\* a local that no assignment has bound yet
Unbound == "<unbound>"

NoPath == <<"", <<>>>>

NoTarget == [open |-> FALSE, path |-> NoPath, buf |-> <<>>]

\* result strings (their formatted details left out)
PatchedOK == "patched successfully"

DownloadedOK == "patch downloaded successfully"

FetchFailed == "could not download patch"

PatchCrcFailed == "patch_file failed CRC check"

RomNotFound == "rom not found"

RomCrcFailed == "rom_file failed CRC check"

Unsupported == "unsupported patch type"

BpsFailed == "bps patch failed"

IpsFailed == "ips patch failed"

OutCrcFailed == "out_file failed CRC check"

\* the optional arguments a run is started with: the defaults of the command
\* line, or one of them set
Options ==
    { [out_dir |-> "out", search |-> FALSE, crc_search_limit |-> <<10>>],
      [out_dir |-> NoDir, search |-> FALSE, crc_search_limit |-> <<10>>],
      [out_dir |-> "out", search |-> TRUE,  crc_search_limit |-> <<10>>],
      [out_dir |-> "out", search |-> FALSE, crc_search_limit |-> <<1>>] }

\* run_patches is entered with a database, a rom directory and a patch
\* directory as some earlier run or the user left them
InitRun ==
    /\ rom_dir = rom_dir_name
    /\ \E o \in Options :
          /\ out_dir = o.out_dir
          /\ search = o.search
          /\ crc_search_limit = o.crc_search_limit
    /\ check_finalcrc \in BOOLEAN
    /\ download_only \in BOOLEAN
    /\ stop_on_error \in BOOLEAN
    /\ xml_isfile = TRUE
    /\ dirs = {rom_dir_name, patch_dir}
    /\ games_el \in Databases
    /\ name_ratio = PoolScores
    /\ file_ratio = FileScores
    /\ \E roms \in RomListings, patches \in PatchListings(games_el) :
          fs = Merged(roms, patches)

\* ... or without the database, without the rom directory, or (in
\* download-only mode) without a rom directory argument
InitBroken ==
    /\ \/ xml_isfile = FALSE /\ rom_dir = rom_dir_name /\ dirs = {rom_dir_name}
          /\ download_only \in BOOLEAN
       \/ xml_isfile = TRUE /\ rom_dir = rom_dir_name /\ dirs = {}
          /\ download_only \in BOOLEAN
       \/ xml_isfile = TRUE /\ rom_dir = NoDir /\ dirs = {}
          /\ download_only = TRUE
    /\ out_dir \in {NoDir, "out"}
    /\ check_finalcrc = TRUE
    /\ search = FALSE
    /\ stop_on_error = FALSE
    /\ crc_search_limit = <<10>>
    /\ games_el \in Databases
    /\ name_ratio = PoolScores
    /\ file_ratio = FileScores
    /\ fs = <<>>

\* the rom directory of a run that has to search for its rom: up to
\* MaxListed of the names, the rom being "Z.sfc" and the file that has the name
\* of the patched rom, "Y.sfc" another file
ListingOf(S) ==
    [p \in {PathJoin(rom_dir_name, b) : b \in S} |->
        IF p[2] = SubdirBase THEN Directory
        ELSE IF p[2] = OtherBase THEN <<0, 1>> ELSE <<1, 1>>]

LocateListings ==
    {ListingOf(S) : S \in {T \in SUBSET RomBases : Cardinality(T) <= MaxListed}}

\* every scoring of the names listed; a name not listed scores low
ScoresOver(listing) ==
    {t \in [RomBases -> FileRatios] :
        \A b \in RomBases : PathJoin(rom_dir_name, b) \notin DOMAIN listing => t[b] = 60}

\* the limits given to a run: None, the default, 0 ("do not search"), 1, and
\* a negative integer
Limits == {NoLimit, <<10>>, <<0>>, <<1>>, <<-1>>}

\* the intact patch of each game of a database
IntactPatches(db) ==
    [p \in {PatchPath(db[k]) : k \in 1..Len(db)} |->
        PublishedPatch(db[CHOOSE k \in 1..Len(db) : PatchPath(db[k]) = p])]

\* runs of one game whose patch is in place, over the listings, the scores
\* and the limits
LocateRuns ==
    /\ rom_dir = rom_dir_name
    /\ out_dir \in {NoDir, "out"}
    /\ crc_search_limit \in Limits
    /\ search = FALSE
    /\ check_finalcrc = TRUE
    /\ download_only = FALSE
    /\ stop_on_error = FALSE
    /\ xml_isfile = TRUE
    /\ dirs = {rom_dir_name, patch_dir}
    /\ games_el \in {<<GamePool[k]>> : k \in 1..Len(GamePool)}
    /\ name_ratio = PoolScores
    /\ \E roms \in LocateListings :
          /\ file_ratio \in ScoresOver(roms)
          /\ fs = Merged(roms, IntactPatches(games_el))

\* the k-th game of a database that is searched: "A_<k>", its patch a bps
\* file for odd k and an ips file for even k
CatalogGame(k) ==
    [name |-> <<65, 95, 48 + k>>, version |-> <<49>>, shortauthor |-> <<120>>,
     patchtype |-> IF k % 2 = 1 THEN bps ELSE ips,
     patchCRC |-> IF k % 2 = 1 THEN Hex8(66) ELSE Hex8(68),
     baseCRC |-> Hex8(51),
     finalCRC |-> IF k % 2 = 1 THEN Hex8(55) ELSE Hex8(52)]

Catalog(n) == [k \in 1..n |-> CatalogGame(k)]

\* every scoring of the names of a database: any scores for a small database,
\* scores of a search text that is close to no name for a larger one
ScoresOf(db) ==
    [{db[k].name : k \in 1..Len(db)} ->
        IF Len(db) <= MaxClose THEN Ratios ELSE {r \in Ratios : r <= 50}]

\* runs with a search text, the patches and the rom in place; the larger
\* databases in download-only mode
SearchRuns ==
    /\ rom_dir = rom_dir_name
    /\ out_dir = "out"
    /\ crc_search_limit = <<10>>
    /\ search = TRUE
    /\ check_finalcrc = TRUE
    /\ stop_on_error = FALSE
    /\ xml_isfile = TRUE
    /\ dirs = {rom_dir_name, patch_dir}
    /\ games_el \in {Catalog(n) : n \in 0..MaxCatalog}
    /\ download_only \in IF Len(games_el) <= 2 THEN BOOLEAN ELSE {TRUE}
    /\ name_ratio \in ScoresOf(games_el)
    /\ file_ratio = FileScores
    /\ fs = Merged(ListingOf({ExpectedBase}), IntactPatches(games_el))

\* the names of a game: strings of "A", "_", "1" and "x"
NameChars == {65, 95, 49, 120}

Names == UNION {[1..n -> NameChars] : n \in 1..MaxNameLen}

\* runs of one game of any name, its patch in place, the rom "A.sfc" in the
\* rom directory or the rom directory empty
NameRuns ==
    /\ rom_dir = rom_dir_name
    /\ out_dir = "out"
    /\ crc_search_limit = <<10>>
    /\ search = FALSE
    /\ check_finalcrc = TRUE
    /\ download_only = FALSE
    /\ stop_on_error = FALSE
    /\ xml_isfile = TRUE
    /\ dirs = {rom_dir_name, patch_dir}
    /\ \E n \in Names, k \in 1..2 : games_el = <<[CatalogGame(k) EXCEPT !.name = n]>>
    /\ name_ratio = PoolScores
    /\ file_ratio = FileScores
    /\ \E S \in {{ExpectedBase}, {}} :
          fs = Merged(ListingOf(S), IntactPatches(games_el))

\* run_patches has not started
InitLocals ==
    /\ pc = "setup"
    /\ exit_code = -1
    /\ games = <<>>
    /\ idx = 0
    /\ err_list = <<>>
    /\ res = Unbound
    /\ files = <<>>
    /\ checked = 0
    /\ patch_file = NoPath
    /\ rom_file = NoPath
    /\ out_file = NoPath
    /\ target = NoTarget
    /\ excepted = "no"
    /\ suggestions = <<>>
    /\ results = <<>>
    /\ errors_printed = <<>>
    /\ syscalls = {}

Init == (InitRun \/ InitBroken) /\ InitLocals

InitLocate == LocateRuns /\ InitLocals

InitSearch == SearchRuns /\ InitLocals

InitNames == NameRuns /\ InitLocals

---------------------------------------------------------------------------
(* run_patches up to the loop.                                             *)

\* the directories made before the checks of lines 41-46 have passed
RequiredDirs_Unchecked(passed, out) == {out, patch_dir}

\* lines 47-50: the directories the run makes once the checks have passed
RequiredDirs(passed, out) == IF passed THEN {out, patch_dir} ELSE {}

\* lines 16-50: default the target directory, check the database and the
\* rom directory, make the target and the patch directory
Setup ==
    /\ pc = "setup"
    /\ out_dir' = IF out_dir = NoDir THEN rom_dir ELSE out_dir
    /\ IF ~xml_isfile
       THEN pc' = "exited" /\ exit_code' = 1
       ELSE IF rom_dir = NoDir
       THEN pc' = "raised" /\ exit_code' = exit_code
       ELSE IF rom_dir \notin dirs
       THEN pc' = "exited" /\ exit_code' = 1
       ELSE pc' = "load" /\ exit_code' = exit_code
    /\ dirs' = dirs \cup RequiredDirs(pc' = "load", out_dir')
    /\ UNCHANGED << args, crc_search_limit, xml_isfile, fs, games_el, games,
                    idx, err_list, res, locals, target, excepted, printed,
                    syscalls >>

\* [[el.get('name'), ratio, el] for el in games_el]
Scored(els, ratio) ==
    [k \in 1..Len(els) |-> [name |-> els[k].name, ratio |-> ratio[k], el |-> els[k]]]

\* games[:min(5, len(games))], the names
Suggested(ranked) ==
    [k \in 1..Min(5, Len(ranked)) |-> ranked[k].name]

\* the limit forced whatever the size of the working set
ForcedLimit_AnySize(working, limit) ==
    IF limit = NoLimit THEN <<10>> ELSE limit

\* lines 87-89
ForcedLimit(working, limit) ==
    IF Len(working) > 100 /\ limit = NoLimit THEN <<10>> ELSE limit

\* lines 52-91: build the working set, by fuzzy search or by name
LoadGames ==
    /\ pc = "load"
    /\ IF search
       THEN LET ranked == Sorted(Scored(games_el,
                              [k \in 1..Len(games_el) |-> name_ratio[games_el[k].name]]),
                              "ratio")
            IN  IF ranked = <<>>
                THEN /\ pc' = "raised"
                     /\ UNCHANGED << games, suggestions, crc_search_limit, idx >>
                ELSE IF ranked[1].ratio <= 50
                THEN /\ pc' = "returned"
                     /\ games' = ranked
                     /\ suggestions' = Suggested(ranked)
                     /\ UNCHANGED << crc_search_limit, idx >>
                ELSE /\ games' = FilterWithinTenth(ranked, ranked[1].ratio)
                     /\ crc_search_limit' = ForcedLimit(games', crc_search_limit)
                     /\ idx' = 1
                     /\ pc' = IF games' = <<>> THEN "errors" ELSE "entry"
                     /\ UNCHANGED suggestions
       ELSE /\ games' = Sorted(Scored(games_el, [k \in 1..Len(games_el) |-> 100]), "name")
            /\ crc_search_limit' = ForcedLimit(games', crc_search_limit)
            /\ idx' = 1
            /\ pc' = IF games' = <<>> THEN "errors" ELSE "entry"
            /\ UNCHANGED suggestions
    /\ err_list' = IF pc' \in {"entry", "errors"} THEN <<>> ELSE err_list
    /\ UNCHANGED << args, out_dir, xml_isfile, dirs, fs, games_el, exit_code,
                    res, locals, target, excepted, results, errors_printed,
                    syscalls >>

---------------------------------------------------------------------------
(* The loop body: one pipeline per entry of the working set.               *)

\* the entry the loop is at
Game == games[idx].el

Name == games[idx].name

\* a file operation of the entry the loop is at
Op(kind, path) == [op |-> kind, path |-> path, at |-> idx]

\* lines 94-109: the loop takes the next entry and prints its header
StartEntry ==
    /\ pc = "entry"
    /\ patch_file' = PathJoin(patch_dir, DotJoin(Name, Game.patchtype))
    /\ excepted' = "no"
    /\ pc' = "acquire"
    /\ UNCHANGED << args, out_dir, crc_search_limit, xml_isfile, dirs, fs,
                    games_el, exit_code, games, idx, err_list, res, rom_file,
                    out_file, searched, target, printed, syscalls >>

\* what urlretrieve leaves behind when the transfer breaks off
CutShort(data) == SubSeq(data, 1, Len(data) - 1)

\* lines 111-118: download the patch when it is not in the patch directory.
\* The server answers with the published file or another one; urlretrieve
\* raises before it creates the file, or after it wrote a part of it.
PatchAcquire ==
    /\ pc = "acquire"
    /\ IF IsFile(fs, patch_file)
       THEN UNCHANGED << fs, res, syscalls >>
       ELSE \/ /\ \E data \in {PublishedPatch(Game), FlipLastBit(PublishedPatch(Game))} :
                     fs' = WithFile(fs, patch_file, data)
               /\ res' = res
               /\ syscalls' = syscalls \cup {Op("fetch", patch_file)}
            \/ /\ fs' = fs
               /\ res' = FetchFailed
               /\ syscalls' = syscalls \cup {Op("fetch failed", patch_file)}
            \/ /\ fs' = WithFile(fs, patch_file, CutShort(PublishedPatch(Game)))
               /\ res' = FetchFailed
               /\ syscalls' = syscalls \cup {Op("fetch failed", patch_file)}
    /\ pc' = "patchcrc"
    /\ UNCHANGED << args, out_dir, crc_search_limit, xml_isfile, dirs,
                    games_el, exit_code, games, idx, err_list, locals, target,
                    excepted, printed >>

\* the comparison left out: every file passes
CrcMatches_Any(expected, data) == TRUE

\* game_el.find(field).text == '{:08X}'.format(crc)
CrcMatches(expected, data) == expected = Format08X(ChecksumOf(data))

\* the download-only branch left out: the pipeline goes on to the rom
PatchGate_NoShortCircuit(matches, only, r) ==
    IF ~matches THEN [res |-> PatchCrcFailed, pc |-> "result"]
    ELSE [res |-> r, pc |-> "locate"]

\* lines 124-130: where the patch gate sends the entry, and with which result
PatchGate(matches, only, r) ==
    IF ~matches THEN [res |-> PatchCrcFailed, pc |-> "result"]
    ELSE IF only THEN [res |-> DownloadedOK, pc |-> "result"]
    ELSE [res |-> r, pc |-> "locate"]

\* lines 119-129: checksum the patch file; a mismatch ends the entry, and so
\* does download-only mode.  open() raises when the file is not there.
PatchIntegrity ==
    /\ pc = "patchcrc"
    /\ IF ~IsFile(fs, patch_file)
       THEN pc' = "raised" /\ UNCHANGED << res, syscalls >>
       ELSE LET gate == PatchGate(CrcMatches(Game.patchCRC, fs[patch_file]),
                                  download_only, res)
            IN  /\ syscalls' = syscalls \cup {Op("read", patch_file)}
                /\ res' = gate.res
                /\ pc' = gate.pc
    /\ UNCHANGED << args, out_dir, crc_search_limit, xml_isfile, dirs, fs,
                    games_el, exit_code, games, idx, err_list, locals, target,
                    excepted, printed >>

\* the orders in which glob can list a set of paths
Listings(S) ==
    {f \in [1..Cardinality(S) -> S] : \A a, b \in 1..Cardinality(S) : a # b => f[a] # f[b]}

\* one candidate fewer than the limit allows
Slice_OneShort(s, limit) ==
    IF limit = NoLimit THEN s
    ELSE IF limit[1] >= 1 THEN SubSeq(s, 1, Min(limit[1] - 1, Len(s)))
    ELSE <<>>

\* s[:limit]
Slice(s, limit) ==
    IF limit = NoLimit THEN s
    ELSE IF limit[1] >= 0 THEN SubSeq(s, 1, Min(limit[1], Len(s)))
    ELSE SubSeq(s, 1, Len(s) + limit[1])

\* lines 143-150: the position of the first candidate whose checksum is the
\* base checksum, or 0
FirstMatch(cands, f, baseCRC) ==
    LET hits == {k \in 1..Len(cands) : CrcMatches(baseCRC, f[cands[k].file])}
    IN  IF hits = {} THEN 0 ELSE CHOOSE k \in hits : \A j \in hits : k <= j

\* the file expected for a game: rom_dir/<rom_name>.<rom_ext>
ExpectedRom(dir, name) == PathJoin(dir, DotJoin(RomName(name), rom_ext))

\* the position of the first candidate that is a directory, or 0
FirstDirectory(cands, f) ==
    LET hits == {k \in 1..Len(cands) : f[cands[k].file] = Directory}
    IN  IF hits = {} THEN 0 ELSE CHOOSE k \in hits : \A j \in hits : k <= j

\* lines 131-150: the rom under its expected name, or else the first of the
\* best-ranked entries of the rom directory that has the base checksum.
\* glob lists subdirectories too, and open() raises on one.
SourceLocate ==
    /\ pc = "locate"
    /\ LET expected == ExpectedRom(rom_dir, Name)
           listed   == {p \in DOMAIN fs : p[1] = rom_dir}
       IN  IF IsFile(fs, expected)
           THEN /\ rom_file' = expected
                /\ syscalls' = syscalls
                /\ pc' = "srccrc"
                /\ UNCHANGED << files, checked >>
           ELSE \E order \in Listings(listed) :
                  LET scored == [k \in 1..Len(order) |->
                                    [file |-> order[k], ratio |-> file_ratio[order[k][2]]]]
                      cut    == Slice(Sorted(scored, "ratio"), crc_search_limit)
                      dir    == FirstDirectory(cut, fs)
                      reach  == IF dir = 0 THEN cut ELSE SubSeq(cut, 1, dir - 1)
                      hit    == FirstMatch(reach, fs, Game.baseCRC)
                      last   == IF hit # 0 THEN hit
                                ELSE IF dir # 0 THEN dir ELSE Len(cut)
                  IN  /\ files' = cut
                      /\ checked' = last
                      /\ rom_file' = IF hit = 0 THEN expected ELSE cut[hit].file
                      /\ syscalls' = syscalls \cup
                            {Op("read", cut[k].file) : k \in 1..(IF hit # 0 THEN hit
                                                                ELSE Len(reach))}
                      /\ pc' = IF hit = 0 /\ dir # 0 THEN "raised" ELSE "srccrc"
    /\ UNCHANGED << args, out_dir, crc_search_limit, xml_isfile, dirs, fs,
                    games_el, exit_code, games, idx, err_list, res, patch_file,
                    out_file, target, excepted, printed >>

\* lines 151-166: the rom must exist and have the base checksum, and the
\* patch type must be one the script applies
SourceIntegrity ==
    /\ pc = "srccrc"
    /\ IF ~IsFile(fs, rom_file)
       THEN /\ res' = RomNotFound /\ pc' = "result"
            /\ UNCHANGED << out_file, syscalls >>
       ELSE /\ syscalls' = syscalls \cup {Op("read", rom_file)}
            /\ IF ~CrcMatches(Game.baseCRC, fs[rom_file])
               THEN res' = RomCrcFailed /\ pc' = "result" /\ out_file' = out_file
               ELSE /\ out_file' = PathJoin(out_dir,
                          OutBase(RomName(Name), Game.version, Game.shortauthor))
                    /\ IF Game.patchtype \notin {bps, ips}
                       THEN res' = Unsupported /\ pc' = "result"
                       ELSE res' = res /\ pc' = "apply"
    /\ UNCHANGED << args, out_dir, crc_search_limit, xml_isfile, dirs, fs,
                    games_el, exit_code, games, idx, err_list, patch_file,
                    rom_file, searched, target, excepted, printed >>

\* a write of data at offset 0 of a file that holds old
Overlay(data, old) == data \o SubSeq(old, Len(data) + 1, Len(old))

\* an output stream is closed (when its last reference goes, or at exit):
\* what is still in its buffer is written to its file
Flushed(f, stream) ==
    IF stream.open /\ stream.buf # <<>>
    THEN WithFile(f, stream.path,
                  Overlay(stream.buf, IF IsFile(f, stream.path) THEN f[stream.path] ELSE <<>>))
    ELSE f

\* target = open(out_file, 'wb'): the file is created or truncated, then the
\* stream the name target was bound to before is closed
OpenedForWrite(f, stream, path) == Flushed(WithFile(f, path, <<>>), stream)

\* target.write(data) on the stream just opened: the bytes stay in the
\* stream's buffer when they fit, and reach the file at once when they do not
WriteTarget(buffered, data) ==
    /\ target' = [open |-> TRUE, path |-> out_file,
                  buf |-> IF buffered THEN data ELSE <<>>]
    /\ fs' = LET opened == OpenedForWrite(fs, target, out_file)
             IN  IF buffered THEN opened
                 ELSE WithFile(opened, out_file, Overlay(data, opened[out_file]))

\* lines 168-176: bps.apply.apply_to_files writes the target in one piece
\* after the patch has been applied and verified, or raises
ApplyBps ==
    /\ pc = "apply"
    /\ Game.patchtype = bps
    /\ \/ /\ \E buffered \in BOOLEAN, data \in Outputs : WriteTarget(buffered, data)
          /\ excepted' = "no"
          /\ res' = res
       \/ /\ WriteTarget(FALSE, <<>>)
          /\ excepted' = "after open"
          /\ res' = BpsFailed
    /\ syscalls' = syscalls \cup {Op("read", rom_file), Op("write", out_file),
                                  Op("read", patch_file)}
    /\ pc' = "outcrc"
    /\ UNCHANGED << args, out_dir, crc_search_limit, xml_isfile, dirs,
                    games_el, exit_code, games, idx, err_list, locals, printed >>

\* lines 189-198: ips_util loads the patch (or raises), the target is opened,
\* the patched bytes are written (or patch.apply raises), and then
\* bps.apply.apply_to_files is handed the ips_util.Patch object, which has no
\* read(): that call always raises
ApplyIps ==
    /\ pc = "apply"
    /\ Game.patchtype = ips
    /\ \/ /\ UNCHANGED << fs, target >>
          /\ excepted' = "before open"
          /\ syscalls' = syscalls \cup {Op("read", patch_file)}
       \/ /\ WriteTarget(FALSE, <<>>)
          /\ excepted' = "after open"
          /\ syscalls' = syscalls \cup {Op("read", patch_file), Op("read", rom_file),
                                        Op("write", out_file)}
       \/ /\ \E buffered \in BOOLEAN, data \in Outputs : WriteTarget(buffered, data)
          /\ excepted' = "after write"
          /\ syscalls' = syscalls \cup {Op("read", patch_file), Op("read", rom_file),
                                        Op("write", out_file)}
    /\ res' = IpsFailed
    /\ pc' = "outcrc"
    /\ UNCHANGED << args, out_dir, crc_search_limit, xml_isfile, dirs,
                    games_el, exit_code, games, idx, err_list, locals, printed >>

\* the output checksum never looked at
CheckedResult_Unchecked(check, expected, data) == PatchedOK

\* the check_finalcrc switch ignored: the output checksum always decides
CheckedResult_AlwaysChecks(check, expected, data) ==
    IF expected = Format08X(ChecksumOf(data)) THEN PatchedOK ELSE OutCrcFailed

\* a mismatch of the output reported as a mismatch of the rom
CheckedResult_BlamesRom(check, expected, data) ==
    IF ~check THEN PatchedOK
    ELSE IF expected = Format08X(ChecksumOf(data)) THEN PatchedOK
    ELSE RomCrcFailed

\* lines 177-188 and 199-210: the statement after the try block
CheckedResult(check, expected, data) ==
    IF ~check THEN PatchedOK
    ELSE IF CrcMatches(expected, data) THEN PatchedOK
    ELSE OutCrcFailed

\* the output gate; it runs whether or not the try block raised, and open()
\* raises when the output file is not there
OutputIntegrity ==
    /\ pc = "outcrc"
    /\ IF check_finalcrc /\ ~IsFile(fs, out_file)
       THEN pc' = "raised" /\ UNCHANGED << res, syscalls >>
       ELSE /\ res' = CheckedResult(check_finalcrc, Game.finalCRC,
                                    IF check_finalcrc THEN fs[out_file] ELSE <<>>)
            /\ syscalls' = IF check_finalcrc
                           THEN syscalls \cup {Op("read", out_file)}
                           ELSE syscalls
            /\ pc' = "result"
    /\ UNCHANGED << args, out_dir, crc_search_limit, xml_isfile, dirs, fs,
                    games_el, exit_code, games, idx, err_list, locals, target,
                    excepted, printed >>

\* line 214
IsSuccess(r) == r \in {PatchedOK, DownloadedOK}

\* the break left out: the loop goes on after a failure
Breaks_Never(stop, r) == FALSE

\* lines 215-218: does the loop end at this entry
Breaks(stop, r) == ~IsSuccess(r) /\ stop

\* lines 214-219: the error list after the entry
Collected(list, stop, name, r) ==
    IF ~IsSuccess(r) /\ ~stop THEN Append(list, <<name, r>>) ELSE list

\* lines 212-219: print the result; a failure ends the loop under
\* stop_on_error and is collected otherwise
Result ==
    /\ pc = "result"
    /\ results' = Append(results, <<Name, res>>)
    /\ err_list' = Collected(err_list, stop_on_error, Name, res)
    /\ IF Breaks(stop_on_error, res)
       THEN pc' = "errors" /\ idx' = idx
       ELSE /\ idx' = idx + 1
            /\ pc' = IF idx + 1 > Len(games) THEN "errors" ELSE "entry"
    /\ UNCHANGED << args, out_dir, crc_search_limit, xml_isfile, dirs, fs,
                    games_el, exit_code, games, res, locals, target, excepted,
                    suggestions, errors_printed, syscalls >>

\* lines 221-226: print the collected errors, if any, and return
PrintErrors ==
    /\ pc = "errors"
    /\ errors_printed' = err_list
    /\ pc' = "returned"
    /\ UNCHANGED << args, out_dir, crc_search_limit, xml_isfile, dirs, fs,
                    games_el, exit_code, games, idx, err_list, res, locals,
                    target, excepted, suggestions, results, syscalls >>

\* the interpreter exits, after the return of run_patches or with the
\* traceback of an uncaught exception, and closes the streams left open
Exit ==
    /\ pc \in {"returned", "raised"}
    /\ exit_code' = IF pc = "raised" THEN 1 ELSE 0
    /\ fs' = Flushed(fs, target)
    /\ target' = NoTarget
    /\ pc' = "exited"
    /\ UNCHANGED << args, out_dir, crc_search_limit, xml_isfile, dirs,
                    games_el, games, idx, err_list, res, locals, excepted,
                    printed, syscalls >>

Next ==
    \/ Setup
    \/ LoadGames
    \/ StartEntry
    \/ PatchAcquire
    \/ PatchIntegrity
    \/ SourceLocate
    \/ SourceIntegrity
    \/ ApplyBps
    \/ ApplyIps
    \/ OutputIntegrity
    \/ Result
    \/ PrintErrors
    \/ Exit

Spec == Init /\ [][Next]_vars

\* the runs that search the database by name
SpecSearch == InitSearch /\ [][Next]_vars

---------------------------------------------------------------------------
(* The limit of the search by checksum as a function of the sizes of the   *)
(* working set and of the rom directory.                                   *)

\* a working set of n entries
WorkingOf(n) ==
    [k \in 1..n |-> [name |-> <<k>>, ratio |-> 100, el |-> CatalogGame(1)]]

\* a rom directory of m files and its ranking, every file scoring the same
FilesOf(m) == [p \in {PathJoin(rom_dir_name, <<k>>) : k \in 1..m} |-> <<0, 1>>]

RankingOf(m) ==
    [k \in 1..m |-> [file |-> PathJoin(rom_dir_name, <<k>>), ratio |-> 60]]

\* run_patches called with crc_search_limit=None has its working set and
\* the rom directory has been ranked
InitLimit ==
    /\ rom_dir = rom_dir_name
    /\ out_dir = "out"
    /\ crc_search_limit = NoLimit
    /\ search = FALSE
    /\ check_finalcrc = TRUE
    /\ download_only = FALSE
    /\ stop_on_error = FALSE
    /\ xml_isfile = TRUE
    /\ dirs = {rom_dir_name, patch_dir, "out"}
    /\ games_el = <<>>
    /\ name_ratio = PoolScores
    /\ file_ratio = FileScores
    /\ \E n \in 0..MaxWorking, m \in 0..MaxFiles :
          /\ games = WorkingOf(n)
          /\ fs = FilesOf(m)
          /\ files = RankingOf(m)
    /\ pc = "sized"
    /\ exit_code = -1 /\ idx = 0 /\ err_list = <<>> /\ res = Unbound
    /\ checked = 0
    /\ patch_file = NoPath /\ rom_file = NoPath /\ out_file = NoPath
    /\ target = NoTarget /\ excepted = "no"
    /\ suggestions = <<>> /\ results = <<>> /\ errors_printed = <<>>
    /\ syscalls = {}

\* lines 87-89: the limit is forced for a large working set
ForceLimit ==
    /\ pc = "sized"
    /\ crc_search_limit' = ForcedLimit(games, crc_search_limit)
    /\ pc' = "forced"
    /\ UNCHANGED << args, out_dir, xml_isfile, dirs, fs, games_el, exit_code,
                    games, idx, err_list, res, locals, target, excepted,
                    printed, syscalls >>

\* line 141: the ranking is cut to the limit
CutFiles ==
    /\ pc = "forced"
    /\ files' = Slice(files, crc_search_limit)
    /\ pc' = "cut"
    /\ UNCHANGED << args, out_dir, crc_search_limit, xml_isfile, dirs, fs,
                    games_el, exit_code, games, idx, err_list, res, patch_file,
                    rom_file, out_file, checked, target, excepted, printed,
                    syscalls >>

NextLimit == ForceLimit \/ CutFiles

SpecLimit == InitLimit /\ [][NextLimit]_vars

\* the runs over the names of a game
SpecNames == InitNames /\ [][Next]_vars

\* the runs that search the rom directory
SpecLocate == InitLocate /\ [][Next]_vars

---------------------------------------------------------------------------
(* Properties.                                                             *)

\* has the entry at position k of the working set opened its output file
Applied(k) == \E o \in syscalls : o.op = "write" /\ o.at = k

\* has the entry at position k performed any file or network operation
Touched(k) == \E o \in syscalls : o.at = k

\* the entry at position k has its published patch in the patch directory and
\* the intact rom under the expected name: its gates up to Apply will pass
WouldReachApply(k) ==
    LET el == games[k].el
        pp == PathJoin(patch_dir, DotJoin(el.name, el.patchtype))
        rp == PathJoin(rom_dir, DotJoin(RomName(el.name), rom_ext))
    IN  /\ IsFile(fs, pp) /\ fs[pp] = PublishedPatch(el)
        /\ IsFile(fs, rp) /\ el.baseCRC = Format08X(ChecksumOf(fs[rp]))
        /\ el.patchtype \in {bps, ips}

\* the run [A, B] under stop_on_error in which A has been reported as failed
\* and B has everything it needs
StopCase ==
    /\ stop_on_error
    /\ Len(games) = 2
    /\ Len(results) >= 1
    /\ results[1][2] \notin {PatchedOK, DownloadedOK}
    /\ WouldReachApply(2)

\* C1 as stated: under stop_on_error, when A (first) fails and B follows, the
\* run halts after A, B is never started, and the error list printed at the
\* end holds exactly the entry A.
C1_ReportHoldsA ==
    (StopCase /\ pc = "exited") =>
        /\ Len(results) = 1
        /\ ~Touched(2)
        /\ errors_printed = << results[1] >>

\* C1 as amended: under stop_on_error, when A (first) fails and B follows, the
\* run halts after A, B is never started, and the error list stays empty: A's
\* failure is printed on A's result line only, no error block is printed.
C1_StopHaltsRun ==
    StopCase =>
        /\ Len(results) = 1
        /\ idx = 1
        /\ pc \in {"errors", "returned", "exited"}
        /\ ~Touched(2)
        /\ err_list = <<>>
        /\ errors_printed = <<>>

C1_Witness ==
    /\ StopCase
    /\ pc = "exited"
    /\ exit_code = 0

\* C2: whenever the patch engine raises during Apply, for a bps and for an ips
\* entry, with the output check on or off, the entry's result is the failure
\* that names the patch application; it is never "patched successfully".
C2_EngineErrorIsReported ==
    (pc = "result" /\ excepted \in {"before open", "after open"}) =>
        res = (IF Game.patchtype = bps THEN BpsFailed ELSE IpsFailed)

\* C3: when the patch is not in the patch directory and the download fails,
\* the entry's result is the download failure, the run does not abort, and
\* every later entry is still processed.
C3_FetchFailureIsRecorded ==
    \A k \in 1..Len(games) :
        (\E o \in syscalls : o.op = "fetch failed" /\ o.at = k) =>
            /\ pc # "raised"
            /\ (k <= Len(results) => results[k][2] = FetchFailed)
            /\ (pc = "exited" /\ ~stop_on_error => Len(results) = Len(games))

\* is the file at path p there with the checksum the database expects
HasChecksum(p, expected) ==
    IsFile(fs, p) /\ expected = Format08X(ChecksumOf(fs[p]))

\* do two contents of the same length differ in exactly one bit
OneBitApart(a, b) ==
    Len(a) = Len(b) /\ Cardinality({i \in 1..Len(a) : a[i] # b[i]}) = 1

\* the patch file of the entry at position k of the working set
PatchOf(k) == PathJoin(patch_dir, DotJoin(games[k].name, games[k].el.patchtype))

\* C4: Apply (opening the output file and invoking the engine) is reached only
\* when the patch file has the patch checksum and the located source file the
\* base checksum; an entry whose patch file is one bit off the published one
\* ends with the patch CRC failure and never opens an output file.
C4_ApplyOnlyAfterBothGates ==
    /\ pc = "apply" =>
          /\ HasChecksum(patch_file, Game.patchCRC)
          /\ HasChecksum(rom_file, Game.baseCRC)
    /\ \A k \in 1..Len(games) :
          Applied(k) => HasChecksum(PatchOf(k), games[k].el.patchCRC)
    /\ \A k \in 1..Len(results) :
          (IsFile(fs, PatchOf(k))
             /\ OneBitApart(fs[PatchOf(k)], PublishedPatch(games[k].el)))
          => (results[k][2] = PatchCrcFailed /\ ~Applied(k))

C4_Witness ==
    /\ pc = "apply"
    /\ idx = 2
    /\ rom_file # ExpectedRom(rom_dir, Name)
    /\ results[1][2] = PatchCrcFailed
    /\ OneBitApart(fs[PatchOf(1)], PublishedPatch(games[1].el))

\* the content the output file of the current entry has once its stream is closed
OutputWritten ==
    LET closed == Flushed(fs, target) IN closed[out_file]

\* C5: a bps or ips entry whose patch file and source file pass their checks
\* and whose patched output, written to the output path, has the final
\* checksum ends in "patched successfully".
C5_MatchingEntryIsPatched ==
    (/\ pc = "result"
     /\ Game.patchtype \in {bps, ips}
     /\ Applied(idx)
     /\ excepted \in {"no", "after write"}
     /\ Game.finalCRC = Format08X(ChecksumOf(OutputWritten)))
    => res = PatchedOK

\* C6: with check_finalcrc on, an entry ends in "patched successfully" only if
\* the file at the output path has the final checksum; when the output gate
\* finds another checksum, the entry ends in a failure.
C6_PatchedOnlyIfOutputMatches ==
    (pc = "result" /\ check_finalcrc) =>
        /\ res = PatchedOK => HasChecksum(out_file, Game.finalCRC)
        /\ ((Applied(idx) \/ excepted # "no")
              /\ ~HasChecksum(out_file, Game.finalCRC))
           => res \notin {PatchedOK, DownloadedOK}

C6_Witness ==
    /\ pc = "result"
    /\ check_finalcrc
    /\ idx = 2
    /\ res = PatchedOK
    /\ results[1][2] = OutCrcFailed

\* C7: with check_finalcrc off, every entry whose Apply step ran without an
\* error of its patch engine ends in "patched successfully", whatever the
\* output file holds.
C7_UncheckedApplyIsPatched ==
    (/\ pc = "result"
     /\ ~check_finalcrc
     /\ Applied(idx)
     /\ excepted \in {"no", "after write"})
    => res = PatchedOK

C7_Witness ==
    /\ pc = "result"
    /\ ~check_finalcrc
    /\ Applied(idx)
    /\ excepted = "no"
    /\ Game.finalCRC # Format08X(ChecksumOf(OutputWritten))
    /\ res = PatchedOK

\* the failed entries of the printed results, in order
RECURSIVE FailedOnly(_)
FailedOnly(rs) ==
    IF rs = <<>> THEN <<>>
    ELSE IF Head(rs)[2] \in {PatchedOK, DownloadedOK} THEN FailedOnly(Tail(rs))
    ELSE <<Head(rs)>> \o FailedOnly(Tail(rs))

\* C8: without stop_on_error the run processes every entry of the working set
\* exactly once, in working-set order (by name without a search, by
\* descending score with one), goes on after every failure, and the error
\* list printed after the loop is the failed entries in processing order.
C8_EveryEntryProcessedInOrder ==
    /\ \A a, b \in 1..Len(games) :
          a < b => IF search THEN games[a].ratio >= games[b].ratio
                   ELSE StrLess(games[a].name, games[b].name)
    /\ (~stop_on_error /\ pc = "exited" /\ idx >= 1) =>
          /\ Len(results) = Len(games)
          /\ \A k \in 1..Len(games) : results[k][1] = games[k].name
          /\ errors_printed = FailedOnly(results)

\* C9: the result reported for an entry comes from that entry's own gates
\* only, whatever happened to the entries before it: when the result is the
\* verdict of the output gate, the file that gate checksummed is one the entry
\* itself opened for writing, not one an earlier entry of the run left behind.
C9_ResultFromOwnGates ==
    (/\ pc = "result"
     /\ check_finalcrc
     /\ res \in {PatchedOK, OutCrcFailed}
     /\ ~Applied(idx))
    => ~\E j \in 1..(idx - 1) :
           [op |-> "write", path |-> out_file, at |-> j] \in syscalls

\* C10: in download-only mode an entry whose patch file has the patch checksum
\* ends in "patch downloaded successfully" and one whose patch file has
\* another checksum ends in a failure; no file outside the patch directory is
\* read, and no output file is opened or created.
C10_DownloadOnlyLeavesRomsAlone ==
    download_only =>
        /\ \A o \in syscalls : o.path[1] = patch_dir /\ o.op # "write"
        /\ target = NoTarget
        /\ \A k \in 1..Len(games_el), d \in {rom_dir, out_dir, "out"} :
              ~IsFile(fs, PathJoin(d, OutBase(RomName(games_el[k].name),
                                   games_el[k].version, games_el[k].shortauthor)))
        /\ pc = "result" =>
              IF HasChecksum(patch_file, Game.patchCRC)
              THEN res = DownloadedOK
              ELSE res = PatchCrcFailed

C10_Witness ==
    /\ download_only
    /\ pc = "exited"
    /\ Len(results) = 2
    /\ results[1][2] = PatchCrcFailed
    /\ results[2][2] = DownloadedOK
    /\ syscalls # {}

---------------------------------------------------------------------------
(* The search of the rom directory by checksum.                            *)

\* the entries of the rom directory
Candidates == {p \in DOMAIN fs : p[1] = rom_dir}

\* the files among them that have the base checksum of the entry the loop is at
Matching ==
    {p \in Candidates :
        fs[p] # Directory /\ Game.baseCRC = Format08X(ChecksumOf(fs[p]))}

\* the entries of the rom directory the entry the loop is at has checksummed
Checksummed ==
    {o.path : o \in {q \in syscalls : q.op = "read" /\ q.at = idx /\ q.path[1] = rom_dir}}

\* the search has ended with the exception open() raises on a directory
Stuck ==
    /\ pc = "raised"
    /\ checked \in 1..Len(files)
    /\ fs[files[checked].file] = Directory

\* the entry the loop is at has just searched the rom directory
SearchRan ==
    /\ idx \in 1..Len(games)
    /\ ~IsFile(fs, ExpectedRom(rom_dir, Name))
    /\ pc = "srccrc" \/ Stuck

\* the other entries that score at least as high as p, and the entries that
\* score higher
NotBelow(p) == {q \in Candidates \ {p} : file_ratio[q[2]] >= file_ratio[p[2]]}

Above(p) == {q \in Candidates : file_ratio[q[2]] > file_ratio[p[2]]}

\* p is among the crc_search_limit best-ranked entries however glob lists the
\* directory, and p is not among them however glob lists it
WithinLimit(p) ==
    crc_search_limit = NoLimit \/ Cardinality(NotBelow(p)) < crc_search_limit[1]

BeyondLimit(p) ==
    /\ crc_search_limit # NoLimit
    /\ crc_search_limit[1] >= 0
    /\ Cardinality(Above(p)) >= crc_search_limit[1]

\* the search has checksummed no more candidates than the limit allows, which
\* is none for a limit of 0 or less
InLimit ==
    crc_search_limit # NoLimit =>
        Cardinality(Checksummed) <= IF crc_search_limit[1] > 0
                                    THEN crc_search_limit[1] ELSE 0

Done == IF Stuck THEN checked - 1 ELSE checked

\* the search checksums the best-ranked candidates in descending order of
\* their scores and stops at the first that has the base checksum
RankedAndStopped ==
    /\ Checksummed = {files[k].file : k \in 1..Done}
    /\ \A k \in 1..Len(files) : files[k].ratio = file_ratio[files[k].file[2]]
    /\ \A j, k \in 1..Len(files) : j < k => files[j].ratio >= files[k].ratio
    /\ \A p \in Checksummed, q \in Candidates \ Checksummed :
          file_ratio[p[2]] >= file_ratio[q[2]]
    /\ \A k \in 1..(Done - 1) : files[k].file \notin Matching

\* C16: the rom directory is searched only when the file of the expected name
\* is not there; the search checksums the candidates in descending order of
\* their scores, at most crc_search_limit of them whatever integer the limit
\* is, and none after the first that has the base checksum.
C16_SearchIsBounded ==
    /\ (pc = "srccrc" /\ IsFile(fs, ExpectedRom(rom_dir, Name))) => Checksummed = {}
    /\ SearchRan => (RankedAndStopped /\ InLimit)

\* the same for the limits that are None or not negative
C16_UnlessNegative ==
    (pc \in {"srccrc", "raised"} /\ crc_search_limit # NoLimit
        => crc_search_limit[1] >= 0)
    => C16_SearchIsBounded

\* C19: the file an entry opens for writing as its output is never the file
\* it has located as its rom, also when the target directory is the rom
\* directory and the rom was found by the search of the rom directory.
C19_OutputIsNotTheSource ==
    (pc = "outcrc" /\ Applied(idx)) => out_file # rom_file

\* the same for the runs whose target directory is not the rom directory
C19_UnlessSameDir == out_dir # rom_dir => C19_OutputIsNotTheSource

\* C15 as stated: called with crc_search_limit=None, the search of the rom
\* directory takes every entry of the directory as a candidate, none is cut
\* off by its rank, whatever the size of the working set.
C15_NoneIsUnlimited ==
    pc = "cut" => {files[k].file : k \in 1..Len(files)} = Candidates

\* C15 as amended: called with crc_search_limit=None, the search of the rom
\* directory takes every entry of the directory as a candidate when the
\* working set holds at most 100 entries; when it holds more, the limit is
\* forced to 10 and only the 10 best-ranked entries are candidates.
C15_NoneIsUnlimitedUpTo100 ==
    pc = "cut" =>
        IF Len(games) <= 100
        THEN {files[k].file : k \in 1..Len(files)} = Candidates
        ELSE /\ crc_search_limit = <<10>>
             /\ Len(files) = Min(10, Cardinality(Candidates))

C15_Witness ==
    /\ pc = "cut"
    /\ Len(games) = 100
    /\ Cardinality(Candidates) = 11
    /\ Len(files) = 11

---------------------------------------------------------------------------
(* The checks before the loop.                                             *)

\* C12: when the database file or the rom directory is missing, the run ends
\* with exit status 1 before it has taken any entry of the database and
\* before it has made the target directory or the patch directory.
C12_AbortsBeforeAnyWork ==
    (~xml_isfile \/ rom_dir \notin dirs) =>
        /\ pc \in {"setup", "raised", "exited"}
        /\ pc = "exited" => exit_code = 1
        /\ games = <<>> /\ idx = 0 /\ results = <<>>
        /\ syscalls = {} /\ fs = <<>>
        /\ patch_dir \notin dirs
        /\ out_dir \in dirs => out_dir = rom_dir

C12_Witness ==
    /\ pc = "exited"
    /\ exit_code = 1
    /\ xml_isfile
    /\ rom_dir = rom_dir_name
    /\ rom_dir \notin dirs
    /\ out_dir = "out"

---------------------------------------------------------------------------
(* The entries that fail before Apply.                                     *)

\* the results of a failed patch gate, rom gate or format dispatch
GateFailures == {PatchCrcFailed, RomNotFound, RomCrcFailed, Unsupported}

\* the output path of the entry at position k of the working set
OutPath(k) ==
    PathJoin(out_dir, OutBase(RomName(games[k].name), games[k].el.version,
                              games[k].el.shortauthor))

\* an entry before position k has opened path p for writing
WrittenBefore(k, p) ==
    \E j \in 1..(k - 1) : [op |-> "write", path |-> p, at |-> j] \in syscalls

\* C20: an entry that fails the patch CRC check, for which no rom is found or
\* the rom fails its CRC check, or whose patch type is neither bps nor ips,
\* has opened no file for writing: its output file is not created, truncated
\* or written, and what is at its output path, or in an output stream still
\* open, an earlier entry has put there.
C20_GateFailureWritesNothing ==
    (pc = "result" /\ res \in GateFailures) =>
        /\ ~Applied(idx)
        /\ target.open => WrittenBefore(idx, target.path)
        /\ IsFile(fs, OutPath(idx)) => WrittenBefore(idx, OutPath(idx))

C20_Witness ==
    /\ pc = "result"
    /\ res = Unsupported
    /\ idx = 2
    /\ IsFile(fs, OutPath(2))
    /\ target.open

---------------------------------------------------------------------------
(* The search of the database by name.                                     *)

\* the score of a <game> element
ScoreOf(el) == name_ratio[el.name]

\* the elements of the database, and those in the working set
Elements == {games_el[k] : k \in 1..Len(games_el)}

Working == {games[k].el : k \in 1..Len(games)}

\* the best score of the database
TopScore == Max({ScoreOf(el) : el \in Elements})

\* the search has found a name close to the search text and has left its
\* working set
Found ==
    /\ search
    /\ pc \notin {"setup", "load"}
    /\ Elements # {}
    /\ TopScore > 50

\* C13: when the best score is above 50, the working set holds the
\* best-scoring entries and no entry whose score is below the best score
\* minus a tenth of it.
C13_TopKeptBelowDropped ==
    Found =>
        /\ \A el \in Elements : ScoreOf(el) = TopScore => el \in Working
        /\ \A el \in Working : 10 * ScoreOf(el) >= 10 * TopScore - TopScore
        /\ \A k \in 1..Len(games) : games[k].ratio = ScoreOf(games[k].el)

C13_Witness ==
    /\ Found
    /\ pc = "entry"
    /\ TopScore = 95
    /\ \E a, b \in Elements :
          /\ ScoreOf(a) = 50 /\ a \notin Working
          /\ ScoreOf(b) = 90 /\ b \in Working

\* C17 as stated: when the best score is above 50, the working set holds
\* every entry whose score is at least the best score minus a tenth of it,
\* an entry that scores exactly that much included.
C17_BoundaryKept ==
    Found =>
        \A el \in Elements :
            10 * ScoreOf(el) >= 10 * TopScore - TopScore => el \in Working

\* C17 as amended: when the best score is above 50, the working set holds
\* every entry whose score is greater than the best score minus a tenth of
\* it; an entry that scores exactly that much is left out.
C17_BoundaryDropped ==
    Found =>
        \A el \in Elements :
            /\ 10 * ScoreOf(el) > 10 * TopScore - TopScore => el \in Working
            /\ 10 * ScoreOf(el) = 10 * TopScore - TopScore => el \notin Working

C17_Witness ==
    /\ Found
    /\ pc = "entry"
    /\ TopScore = 100
    /\ \E a, b \in Elements :
          /\ ScoreOf(a) = 90 /\ a \notin Working
          /\ ScoreOf(b) = 95 /\ b \in Working

\* the search has found no name close to the search text
Vague ==
    /\ search
    /\ pc \notin {"setup", "load"}
    /\ Elements = {} \/ TopScore <= 50

\* C18: when the best score of a search is 50 or less, the run prints as
\* suggestions the best-ranked names, five of them at most, and returns
\* without taking an entry: it fetches nothing, checksums nothing and writes
\* nothing; so it does for the empty database too.
C18_VagueSearchOnlySuggests ==
    Vague =>
        /\ pc \in {"returned", "exited"}
        /\ pc = "exited" => exit_code = 0
        /\ Len(suggestions) = Min(5, Len(games_el))
        /\ \A k \in 1..Len(suggestions) :
              \E el \in Elements :
                 /\ el.name = suggestions[k]
                 /\ k < Len(suggestions) =>
                       ScoreOf(el) >= name_ratio[suggestions[k + 1]]
                 /\ \A other \in Elements :
                       (\A j \in 1..Len(suggestions) : suggestions[j] # other.name)
                       => ScoreOf(other) <= ScoreOf(el)
        /\ idx = 0 /\ results = <<>>
        /\ syscalls = {}
        /\ target = NoTarget

\* the same for the databases that hold a game
C18_NonEmptyOnly == Elements # {} => C18_VagueSearchOnlySuggests

---------------------------------------------------------------------------
(* The rom name of a game.                                                 *)

\* where the name's trailing "_<digits>" starts: the underscore that only
\* digits follow, up to the end of the name
TrailingSuffix(name) ==
    {k \in 1..(Len(name) - 1) :
        name[k] = 95 /\ \A j \in (k + 1)..Len(name) : IsDigit(name[j])}

\* the name without its trailing "_<digits>", if it has one
Stem(name) ==
    IF TrailingSuffix(name) = {} THEN name
    ELSE SubSeq(name, 1, (CHOOSE k \in TrailingSuffix(name) : TRUE) - 1)

\* C14: the rom name of a game is its name without the trailing "_<digits>"
\* when the name ends in one and the name itself in every other case, also
\* when "_<digits>" is followed by more characters; the rom is expected, and
\* the patched rom is written, under that name.
C14_SuffixOnlyAtEnd ==
    /\ (pc = "srccrc" /\ Candidates = {}) =>
          rom_file = PathJoin(rom_dir, DotJoin(Stem(Name), rom_ext))
    /\ pc = "apply" =>
          out_file = PathJoin(out_dir, OutBase(Stem(Name), Game.version, Game.shortauthor))

\* the same for the names in which nothing follows the last "_<digits>"
C14_UnlessFollowed ==
    (/\ pc \in {"srccrc", "apply"}
     /\ \A k \in 1..(Len(Name) - 1) :
           (Name[k] = 95 /\ IsDigit(Name[k + 1])) => TrailingSuffix(Name) # {})
    => C14_SuffixOnlyAtEnd

====
